---- MODULE Spec2Model ----
(***************************************************************************)
(* Model of src/src/lib.rs: Distribution<T>, a weighted random selector    *)
(* built from a BTreeMap of cumulative f64 thresholds (distro), a running  *)
(* f64 total (total_weight) and a BTreeMap of last-added weights           *)
(* (originals), with add, random_pick, without and closest_key_below.      *)
(*                                                                         *)
(* f64 values.  The weights of the model are non-negative integers of the  *)
(* form h * 2^53 + l with small h and l, written [h |-> h, l |-> l].  On   *)
(* that domain IEEE-754 binary64 arithmetic is modelled exactly: below     *)
(* 2^53 every integer is representable, in [2^53 * 2^k, 2^53 * 2^(k+1))    *)
(* only the multiples of 2^(k+1) are, and an addition rounds its exact     *)
(* result to the nearest representable value, ties to the even mantissa.   *)
(***************************************************************************)
EXTENDS Integers, Sequences, FiniteSets, TLC

VARIABLES dist, adds, res, res2, prov, out, floor

vars == <<dist, adds, res, res2, prov, out, floor>>

\* ------------------------------------------------------------------ bounds
\* Number of add calls made by the caller (on either distribution).
MaxAdds == 3

\* ------------------------------------------------------------- f64 values
F(hh, ll) == [h |-> hh, l |-> ll]

Zero == F(0, 0)

\* Total order of f64 values (OrderedFloat's Ord on the modelled domain);
\* it is also the order of the exact, unrounded sums.
FLt(x, y) == x.h < y.h \/ (x.h = y.h /\ x.l < y.l)

FLe(x, y) == x = y \/ FLt(x, y)

RECURSIVE Pow2Floor(_)
\* Greatest power of two that is <= n, for n >= 1.
Pow2Floor(n) == IF n <= 1 THEN 1 ELSE 2 * Pow2Floor(n \div 2)

\* Spacing of the representable f64 values around x (1 stands for "no
\* rounding of integers" below 2^53).
Ulp(x) == IF x.h = 0 THEN 1 ELSE 2 * Pow2Floor(x.h)

\* Round an exact value to the nearest f64, ties to even.
FRound(x) ==
    IF x.h = 0 THEN x
    ELSE LET u == Ulp(x)
             q == x.l \div u
             r == x.l % u
             up == \/ 2 * r > u
                   \/ (2 * r = u /\ q % 2 = 1)
         IN  F(x.h, (IF up THEN q + 1 ELSE q) * u)

\* Exact (real-number) sum.
XAdd(x, y) == F(x.h + y.h, x.l + y.l)

\* f64 addition, as in `self.total_weight += weight`.
FAdd(x, y) == FRound(XAdd(x, y))

Representable(x) == FRound(x) = x

\* ------------------------------------------------------------------ inputs
Values == {1, 2, 3}

GoodWeights == {F(0, 1), F(0, 2), F(1, 0)}

BadWeights == {F(0, 0), F(0, -1)}

Weights == GoodWeights \cup BadWeights

\* --------------------------------------------------------------- Option<T>
None == <<>>

Some(x) == <<x>>

IsSome(o) == Len(o) = 1

\* ------------------------------------------------------------ BTreeMap ops
\* BTreeMap::insert: a new key is added, an existing key's value replaced.
MapInsert(m, k, v) == [x \in DOMAIN m \cup {k} |-> IF x = k THEN v ELSE m[x]]

EmptyMap == [x \in {} |-> 0]

\* ------------------------------------------------------------ Distribution
\* Distribution::new
New == [distro |-> EmptyMap, total_weight |-> Zero, originals |-> EmptyMap]

\* The assertion of add: `assert!(weight > 0.0)`.
AddAsserts(weight) == FLt(Zero, weight)

\* Mutant: the total is overwritten instead of accumulated.
addOverwriteTotal(self, value, weight) ==
    [distro |-> MapInsert(self.distro, self.total_weight, value),
     total_weight |-> weight,
     originals |-> MapInsert(self.originals, value, weight)]

\* Distribution::add after its assertion passed.
add(self, value, weight) ==
    [distro |-> MapInsert(self.distro, self.total_weight, value),
     total_weight |-> FAdd(self.total_weight, weight),
     originals |-> MapInsert(self.originals, value, weight)]

\* BTreeMap::get
MapGet(m, k) == IF k \in DOMAIN m THEN Some(m[k]) ELSE None

RECURSIVE SortKeys(_)
\* The keys of a BTreeMap<OrderedFloat<f64>, T> in iteration order.
SortKeys(S) ==
    IF S = {} THEN <<>>
    ELSE LET k == CHOOSE x \in S : \A y \in S : FLe(x, y)
         IN  <<k>> \o SortKeys(S \ {k})

RECURSIVE SortValues(_)
\* The keys of a BTreeMap<T, f64> in iteration order.
SortValues(S) ==
    IF S = {} THEN <<>>
    ELSE LET v == CHOOSE x \in S : \A y \in S : x <= y
         IN  <<v>> \o SortValues(S \ {v})

RECURSIVE Rev(_)
\* Iterator::rev
Rev(s) == IF s = <<>> THEN <<>> ELSE Rev(Tail(s)) \o <<Head(s)>>

\* Iterator::next on a fresh iterator.
IterNext(s) == IF s = <<>> THEN None ELSE Some(Head(s))

\* Mutant: the range excludes its upper end (`..target`).
RangeTo(tree, target) ==
    SelectSeq(SortKeys(DOMAIN tree), LAMBDA k : FLt(k, target))

\* tree.range(..=OrderedFloat(target)): the keys <= target, ascending.
RangeToInclusive(tree, target) ==
    SelectSeq(SortKeys(DOMAIN tree), LAMBDA k : FLe(k, target))

\* closest_key_below
closest_key_below(tree, target) ==
    IterNext(Rev(RangeToInclusive(tree, target)))

\* rng.gen_range(low..high) panics on an empty range.
GenRangePanics(low, high) == ~FLt(low, high)

\* A finite sample of the f64 values gen_range(0.0..high) can return: the
\* thresholds of the index and their neighbours, inside [0, high).
Draws(self) ==
    {x \in {F(k.h, k.l + d) : k \in DOMAIN self.distro, d \in -2..2} :
        /\ Representable(x)
        /\ FLe(Zero, x)
        /\ FLt(x, self.total_weight)}

\* The result of a call: what was called, on which distribution, how it
\* ended and with which arguments.
Result(op, on, status, site, value, num, removals) ==
    [op |-> op, on |-> on, status |-> status, site |-> site,
     value |-> value, num |-> num, removals |-> removals]

\* Distribution::random_pick once gen_range has returned r.
random_pick(self, on, r) ==
    LET key_picked == closest_key_below(self.distro, r)
    IN  IF ~IsSome(key_picked)
        THEN Result("random_pick", on, "panic", "unwrap_key", 0, r, {})
        ELSE LET got == MapGet(self.distro, key_picked[1])
             IN  IF ~IsSome(got)
                 THEN Result("random_pick", on, "panic", "unwrap_get", 0, r, {})
                 ELSE Result("random_pick", on, "ok", "", got[1], r, {})

RECURSIVE withoutLoopRecordsAll(_, _, _, _)
\* Mutant: a removed value is still recorded in the result's originals.
withoutLoopRecordsAll(self, removals, iter, result) ==
    IF iter = <<>> THEN result
    ELSE LET value == Head(iter)
             weight == self.originals[value]
         IN  withoutLoopRecordsAll(self, removals, Tail(iter),
                 IF value \notin removals
                 THEN add(result, value, weight)
                 ELSE [result EXCEPT
                          !.originals = MapInsert(@, value, weight)])

RECURSIVE withoutLoop(_, _, _, _)
\* The loop of Distribution::without over self.originals.iter().
withoutLoop(self, removals, iter, result) ==
    IF iter = <<>> THEN result
    ELSE LET value == Head(iter)
             weight == self.originals[value]
         IN  withoutLoop(self, removals, Tail(iter),
                         IF value \notin removals
                         THEN add(result, value, weight)
                         ELSE result)

\* Distribution::without
without(self, removals) ==
    withoutLoop(self, removals, SortValues(DOMAIN self.originals), New)

\* An add inside without would fail its assertion.
withoutPanics(self, removals) ==
    \E value \in DOMAIN self.originals \ removals :
        ~AddAsserts(self.originals[value])

\* ----------------------------------------------------------------- state
\* dist  : a distribution created by new() and grown by add
\* adds  : the successful add calls on dist, in order (history)
\* res   : the distribution returned by dist.without (None before)
\* res2  : the distribution returned by res.without (None before)
\* prov  : how res was derived (history): the distribution without was
\*         called on, the removal set, and the number of add calls made
\*         on res afterwards
\* out   : the result of the last call
\* floor : a call of closest_key_below on a tree of the caller: its
\*         arguments and, once it has returned, its result
NoProv == [src |-> New, removals |-> {}, radds |-> 0]

NoResult == Result("new", "dist", "ok", "", 0, Zero, {})

NoFloor == [tree |-> EmptyMap, target |-> Zero, called |-> FALSE, result |-> None]

Init ==
    /\ dist = New
    /\ adds = <<>>
    /\ res = None
    /\ res2 = None
    /\ prov = NoProv
    /\ out = NoResult
    /\ floor = NoFloor

AddCalls == Len(adds) + prov.radds

\* Mutant: the value is inserted before the weight is checked.
AddUnchecked(value, weight) ==
    /\ res = None
    /\ AddCalls < MaxAdds
    /\ dist' = add(dist, value, weight)
    /\ IF AddAsserts(weight)
       THEN /\ adds' = Append(adds, <<value, weight>>)
            /\ out' = Result("add", "dist", "ok", "", value, weight, {})
       ELSE /\ out' = Result("add", "dist", "panic", "assert", value, weight, {})
            /\ UNCHANGED adds
    /\ UNCHANGED <<res, res2, prov>>
    /\ UNCHANGED floor

\* dist.add(value, weight); the caller builds dist before deriving from it
Add(value, weight) ==
    /\ res = None
    /\ AddCalls < MaxAdds
    /\ IF AddAsserts(weight)
       THEN /\ dist' = add(dist, value, weight)
            /\ adds' = Append(adds, <<value, weight>>)
            /\ out' = Result("add", "dist", "ok", "", value, weight, {})
       ELSE /\ out' = Result("add", "dist", "panic", "assert", value, weight, {})
            /\ UNCHANGED <<dist, adds>>
    /\ UNCHANGED <<res, res2, prov>>
    /\ UNCHANGED floor

\* res.add(value, weight) on the distribution returned by without
AddRes(value, weight) ==
    /\ IsSome(res)
    /\ AddCalls < MaxAdds
    /\ IF AddAsserts(weight)
       THEN /\ res' = Some(add(res[1], value, weight))
            /\ prov' = [prov EXCEPT !.radds = @ + 1]
            /\ out' = Result("add", "res", "ok", "", value, weight, {})
       ELSE /\ out' = Result("add", "res", "panic", "assert", value, weight, {})
            /\ UNCHANGED <<res, prov>>
    /\ UNCHANGED <<dist, adds, res2>>
    /\ UNCHANGED floor

\* dist.random_pick()
Pick ==
    /\ IF GenRangePanics(Zero, dist.total_weight)
       THEN out' = Result("random_pick", "dist", "panic", "gen_range", 0, Zero, {})
       ELSE \E r \in Draws(dist) : out' = random_pick(dist, "dist", r)
    /\ UNCHANGED <<dist, adds, res, res2, prov>>
    /\ UNCHANGED floor

\* res.random_pick()
PickRes ==
    /\ IsSome(res)
    /\ IF GenRangePanics(Zero, res[1].total_weight)
       THEN out' = Result("random_pick", "res", "panic", "gen_range", 0, Zero, {})
       ELSE \E r \in Draws(res[1]) : out' = random_pick(res[1], "res", r)
    /\ UNCHANGED <<dist, adds, res, res2, prov>>
    /\ UNCHANGED floor

\* Mutant: without drains the distribution it is called on.
WithoutDraining(removals) ==
    /\ res = None
    /\ res' = Some(without(dist, removals))
    /\ prov' = [src |-> dist, removals |-> removals, radds |-> 0]
    /\ out' = Result("without", "dist", "ok", "", 0, Zero, removals)
    /\ dist' = New
    /\ UNCHANGED <<adds, res2>>
    /\ UNCHANGED floor

\* let res = dist.without(removals); a run derives from dist once
Without(removals) ==
    /\ res = None
    /\ IF withoutPanics(dist, removals)
       THEN /\ out' = Result("without", "dist", "panic", "assert", 0, Zero, removals)
            /\ UNCHANGED <<res, prov>>
       ELSE /\ res' = Some(without(dist, removals))
            /\ prov' = [src |-> dist, removals |-> removals, radds |-> 0]
            /\ out' = Result("without", "dist", "ok", "", 0, Zero, removals)
    /\ UNCHANGED <<dist, adds, res2>>
    /\ UNCHANGED floor

\* let res2 = res.without(removals); a run derives from res once
WithoutRes(removals) ==
    /\ IsSome(res)
    /\ res2 = None
    /\ IF withoutPanics(res[1], removals)
       THEN /\ out' = Result("without", "res", "panic", "assert", 0, Zero, removals)
            /\ UNCHANGED res2
       ELSE /\ res2' = Some(without(res[1], removals))
            /\ out' = Result("without", "res", "ok", "", 0, Zero, removals)
    /\ UNCHANGED <<dist, adds, res, prov>>
    /\ UNCHANGED floor

\* ------------------------------------------------------- specifications
\* Building and sampling one distribution.
Next ==
    \/ \E value \in Values, weight \in Weights : Add(value, weight)
    \/ Pick

Spec == Init /\ [][Next]_vars

\* Deriving a distribution with without, then growing and sampling it.
NextWithout ==
    \/ \E value \in Values, weight \in Weights : Add(value, weight)
    \/ \E removals \in SUBSET Values : Without(removals)
    \/ \E value \in Values, weight \in Weights : AddRes(value, weight)

SpecWithout == Init /\ [][NextWithout]_vars

\* Sampling a distribution and the distribution derived from it.
NextSample ==
    \/ \E value \in Values, weight \in Weights : Add(value, weight)
    \/ \E removals \in SUBSET Values : Without(removals)
    \/ Pick
    \/ PickRes

SpecSample == Init /\ [][NextSample]_vars

\* Deriving a distribution from a derived distribution.
NextChain ==
    \/ \E value \in Values, weight \in Weights : Add(value, weight)
    \/ \E removals \in SUBSET Values : Without(removals)
    \/ \E removals \in SUBSET Values : WithoutRes(removals)

SpecChain == Init /\ [][NextChain]_vars

\* Calling closest_key_below on trees and targets of the caller (the trees
\* of the tests need not start at 0, and a target may be negative).
FloorKeys == {F(0, 1), F(0, 2), F(0, 5), F(1, 0), F(1, 2)}

FloorTargets ==
    {F(0, l) : l \in -1..6} \cup {F(1, 0), F(1, 2), F(1, 4)}

InitFloor ==
    /\ dist = New
    /\ adds = <<>>
    /\ res = None
    /\ res2 = None
    /\ prov = NoProv
    /\ out = NoResult
    /\ \E keys \in SUBSET FloorKeys, target \in FloorTargets :
          floor = [tree |-> [k \in keys |-> 1], target |-> target,
                   called |-> FALSE, result |-> None]

\* closest_key_below(&floor.tree, floor.target)
Floor ==
    /\ ~floor.called
    /\ floor' = [floor EXCEPT
                    !.called = TRUE,
                    !.result = closest_key_below(floor.tree, floor.target)]
    /\ UNCHANGED <<dist, adds, res, res2, prov, out>>

NextFloor == Floor

SpecFloor == InitFloor /\ [][NextFloor]_vars

\* ---------------------------------------------------------------- claims
\* The i-th successful add on dist.
Val(i) == adds[i][1]

Wt(i) == adds[i][2]

RECURSIVE FSumTo(_)
\* The f64 sum of the first n weights added, summed in insertion order.
FSumTo(n) == IF n = 0 THEN Zero ELSE FAdd(FSumTo(n - 1), Wt(n))

RECURSIVE XSumTo(_)
\* The exact sum of the first n weights added.
XSumTo(n) == IF n = 0 THEN Zero ELSE XAdd(XSumTo(n - 1), Wt(n))

\* C1: after any sequence of successful add calls on a distribution created
\* by new(), total_weight is the sum of the weights passed to them, summed
\* as f64 values in insertion order, and 0 for the empty distribution.
C1_TotalWeightIsSum == dist.total_weight = FSumTo(Len(adds))

\* C1 witness: three adds were made, and the f64 sum in insertion order is
\* a rounded one (it differs from the exact sum).
C1_Witness ==
    /\ Len(adds) = MaxAdds
    /\ dist.total_weight = FSumTo(Len(adds))
    /\ dist.total_weight # XSumTo(Len(adds))

\* C2: after n successful adds the index has exactly n entries with
\* distinct keys, the smallest key is 0 when n >= 1, the i-th inserted
\* value sits at the key that is the sum of the weights inserted before it,
\* and the gap from that key to the next one (to total_weight for the last)
\* is exactly the weight of insertion i.
C2_KeysPartition ==
    LET n == Len(adds)
        key(i) == IF i = n + 1 THEN dist.total_weight ELSE FSumTo(i - 1)
    IN  /\ Cardinality(DOMAIN dist.distro) = n
        /\ n >= 1 => Zero \in DOMAIN dist.distro
        /\ \A i \in 1..n :
              /\ key(i) \in DOMAIN dist.distro
              /\ dist.distro[key(i)] = Val(i)
              /\ XAdd(key(i), Wt(i)) = key(i + 1)

\* The interval of insertion i in exact arithmetic: it starts at the sum of
\* the weights inserted before it and has the length of its weight.
InInterval(r, i) == FLe(XSumTo(i - 1), r) /\ FLt(r, XSumTo(i))

\* C3: on a distribution with at least one insertion, for every drawn r in
\* [0, total_weight) random_pick succeeds and returns the value of the
\* insertion whose interval [start, start + weight) contains r.
C3_PickReturnsIntervalOwner ==
    (out.op = "random_pick" /\ out.on = "dist" /\ Len(adds) >= 1) =>
        /\ out.status = "ok"
        /\ \E i \in 1..Len(adds) : InInterval(out.num, i) /\ out.value = Val(i)

\* The distribution the last call was made on.
Target == IF out.on = "dist" THEN dist ELSE res[1]

\* C4: random_pick on a distribution with total_weight = 0 (a new one, or
\* one returned by without with every value excluded) fails with an
\* EmptyDistribution error, without attempting the random draw and without
\* panicking on the empty range.
C4_EmptyPickFailsExplicitly ==
    (out.op = "random_pick" /\ Target.total_weight = Zero) =>
        /\ out.status = "error"
        /\ out.site = "EmptyDistribution"

\* C5: an add with weight <= 0 fails, and it fails before any mutation: the
\* index, total_weight and originals of the distribution are what they were
\* before the call.
C5_BadAddFailsUnchanged ==
    [][(out'.op = "add" /\ out'.on = "dist" /\ ~FLt(Zero, out'.num)) =>
          /\ out'.status = "panic"
          /\ out'.site = "assert"
          /\ dist' = dist]_vars

\* C5 witness: an add with a negative weight on a non-empty distribution
\* has failed.
C5_Witness ==
    /\ out.op = "add"
    /\ out.on = "dist"
    /\ out.status = "panic"
    /\ out.num = F(0, -1)
    /\ Len(adds) >= 1

\* The f64 sum, in the order of the originals table, of the weights of the
\* values of `kept` (a sorted sequence).
RECURSIVE KeptSum(_, _)
KeptSum(originals, kept) ==
    IF kept = <<>> THEN Zero
    ELSE LET n == Len(kept)
         IN  FAdd(KeptSum(originals, SubSeq(kept, 1, n - 1)), originals[kept[n]])

\* The values of an index in key order.
IndexValues(distro) ==
    LET keys == SortKeys(DOMAIN distro)
    IN  [i \in 1..Len(keys) |-> distro[keys[i]]]

\* C6: dist.without(S) succeeds; the result's originals table is dist's
\* restricted to the values not in S, its index has exactly one entry per
\* retained value in the order of the originals table, its total_weight is
\* the sum of the retained weights, and no value of S is in its index.
C6_WithoutResult ==
    (out.op = "without" /\ out.on = "dist") =>
        /\ out.status = "ok"
        /\ IsSome(res)
        /\ LET kept == DOMAIN dist.originals \ out.removals
               r == res[1]
           IN  /\ r.originals = [v \in kept |-> dist.originals[v]]
               /\ Cardinality(DOMAIN r.distro) = Cardinality(kept)
               /\ IndexValues(r.distro) = SortValues(kept)
               /\ r.total_weight = KeptSum(dist.originals, SortValues(kept))
               /\ \A k \in DOMAIN r.distro : r.distro[k] \notin out.removals

\* C7: without never changes the distribution it is called on, and later
\* add calls on the returned distribution do not change it either.
C7_WithoutKeepsReceiver ==
    [][/\ out'.op = "without" => dist' = dist
       /\ out'.on = "res" => dist' = dist]_vars

\* C7 witness: a value was added to the result of a without call on a
\* non-empty distribution, which is still the distribution without was
\* called on.
C7_Witness ==
    /\ out.op = "add"
    /\ out.on = "res"
    /\ out.status = "ok"
    /\ Len(adds) >= 1
    /\ prov.src = dist
    /\ res[1] # without(dist, prov.removals)

\* C8: closest_key_below returns the greatest key of the tree that is <=
\* the target (a key equal to the target itself), returns none exactly when
\* the tree is empty or every key is greater than the target, and does not
\* modify the tree.
C8_FloorQuery ==
    /\ [](floor.called =>
            LET below == {k \in DOMAIN floor.tree : FLe(k, floor.target)}
            IN  /\ floor.result = None <=> below = {}
                /\ floor.result = None <=>
                      \A k \in DOMAIN floor.tree : FLt(floor.target, k)
                /\ IsSome(floor.result) =>
                      /\ floor.result[1] \in below
                      /\ \A k \in below : FLe(k, floor.result[1])
                /\ floor.target \in DOMAIN floor.tree =>
                      floor.result = Some(floor.target))
    /\ [][floor'.tree = floor.tree]_vars

\* C8 witness: a query whose target is a key of the tree, with keys on
\* both sides of it, has returned.
C8_Witness ==
    /\ floor.called
    /\ floor.target \in DOMAIN floor.tree
    /\ floor.result = Some(floor.target)
    /\ \E k \in DOMAIN floor.tree : FLt(k, floor.target)
    /\ \E k \in DOMAIN floor.tree : FLt(floor.target, k)

\* The positions at which value v was added to dist.
Positions(v) == {i \in 1..Len(adds) : Val(i) = v}

\* C9: when a value v is added twice, with w1 and then w2, the index keeps
\* both insertions as separate entries, originals keeps only w2, and
\* dist.without(S) with v not in S gives v exactly w2; with nothing else
\* added twice and nothing excluded, the result's total_weight is smaller
\* than dist's by w1.
C9_DuplicateAsymmetry ==
    \A v \in Values :
        (/\ out.op = "without" /\ out.on = "dist" /\ out.status = "ok"
         /\ v \notin out.removals
         /\ Cardinality(Positions(v)) = 2
         /\ \A u \in Values \ {v} : Cardinality(Positions(u)) <= 1) =>
            LET i == CHOOSE x \in Positions(v) : \A y \in Positions(v) : x <= y
                j == CHOOSE x \in Positions(v) : \A y \in Positions(v) : x >= y
                r == res[1]
                vkey == CHOOSE k \in DOMAIN r.distro : r.distro[k] = v
                above == {k \in DOMAIN r.distro : FLt(vkey, k)}
                next == IF above = {} THEN r.total_weight
                        ELSE CHOOSE k \in above : \A y \in above : FLe(k, y)
            IN  /\ Cardinality({k \in DOMAIN dist.distro : dist.distro[k] = v}) = 2
                /\ dist.originals[v] = Wt(j)
                /\ r.originals[v] = Wt(j)
                /\ Cardinality({k \in DOMAIN r.distro : r.distro[k] = v}) = 1
                /\ XAdd(vkey, Wt(j)) = next
                /\ out.removals = {} => XAdd(r.total_weight, Wt(i)) = dist.total_weight

\* C10: dist.without(S).without(T) has the same index, total_weight and
\* originals table as dist.without(S \cup T).
C10_WithoutComposes ==
    (out.op = "without" /\ out.on = "res" /\ out.status = "ok") =>
        /\ IsSome(res2)
        /\ prov.src = dist
        /\ res[1] = without(dist, prov.removals)
        /\ res2[1] = without(dist, prov.removals \cup out.removals)

\* C10 witness: two successive without calls with overlapping, different,
\* non-empty removal sets on a distribution of three values left a
\* non-empty distribution.
C10_Witness ==
    /\ out.op = "without"
    /\ out.on = "res"
    /\ out.status = "ok"
    /\ Cardinality(DOMAIN dist.originals) = 3
    /\ prov.removals # {}
    /\ out.removals \ prov.removals # {}
    /\ res2[1] # New
    /\ res2[1] # res[1]

====
